---- MODULE Spec2Model ----
(***************************************************************************)
(* Room membership and real-time message distribution of the Flask /       *)
(* Socket.IO chat application (app.py, db.py).                             *)
(*                                                                         *)
(* Strings are modelled as sequences of one-character strings, so that     *)
(* strip(), upper(), lower(), isdigit(), rsplit() and int() are computed.  *)
(* Every request handler is a process; its steps are separated at the      *)
(* database commits and at the Socket.IO emit, which is where handlers of  *)
(* different requests interleave.                                          *)
(***************************************************************************)
EXTENDS Integers, Sequences, FiniteSets, Bags, TLC

\* ---------------------------------------------------------------- bounds
NumUsers == 2        \* registered users, ids 1..NumUsers
NumProcs == 2        \* request handlers that may be in flight together
MaxSalas == 2        \* rooms ever created (AUTO_INCREMENT of Salas)
MaxMensajes == 3     \* messages ever inserted (AUTO_INCREMENT of Mensajes_Sala)
MaxSalasConc == 1    \* rooms ever created while handlers interleave on one room
MaxMensajesCrear == 2       \* messages ever inserted while rooms are created concurrently
MaxHistorial == 68   \* messages in the tables the history is read from
MaxSalasMedia == 1   \* rooms ever created while the uploads are explored
MaxSalasEscenario == 1      \* rooms ever created in the end-to-end scenario
MaxMensajesEscenario == 4   \* messages ever inserted in the end-to-end scenario
NumCodigos == 2      \* codes the random source may draw
MaxSalasRechazo == 1     \* rooms ever created while the refusals are explored

\* ------------------------------------------------------ program constants
CODIGO_LEN == 6
HISTORY_LIMIT == 50
MAX_CONTENT_LENGTH == 20 * 1024 * 1024
CODIGO_ALFABETO == <<"0", "1", "2", "3", "4", "5", "6", "7", "8", "9">>
ALLOWED_EXTENSIONS == {<<"m", "p", "3">>, <<"m", "p", "4">>, <<"j", "p", "g">>, <<"p", "n", "g">>}

Users == 1..NumUsers
Procs == 1..NumProcs
\* A browser session carries user_id u, or none (0).
Sesiones == 0..NumUsers

\* ------------------------------------------------------- python str model
Range(f) == {f[i] : i \in DOMAIN f}

Digitos == Range(CODIGO_ALFABETO)

Espacios == {" "}

RECURSIVE LStrip(_)
LStrip(s) == IF s # <<>> /\ Head(s) \in Espacios THEN LStrip(Tail(s)) ELSE s

RECURSIVE RStrip(_)
RStrip(s) ==
    IF s # <<>> /\ s[Len(s)] \in Espacios THEN RStrip(SubSeq(s, 1, Len(s) - 1)) ELSE s

\* str.strip()
Strip(s) == RStrip(LStrip(s))

MinusculaDe == [c \in {"A", "E", "G", "J", "M", "N", "P", "X"} |->
                  CASE c = "A" -> "a" [] c = "E" -> "e" [] c = "G" -> "g"
                    [] c = "J" -> "j" [] c = "M" -> "m" [] c = "N" -> "n"
                    [] c = "P" -> "p" [] c = "X" -> "x"]

MayusculaDe == [c \in {"a", "e", "g", "j", "m", "n", "p", "x"} |->
                  CASE c = "a" -> "A" [] c = "e" -> "E" [] c = "g" -> "G"
                    [] c = "j" -> "J" [] c = "m" -> "M" [] c = "n" -> "N"
                    [] c = "p" -> "P" [] c = "x" -> "X"]

\* str.lower()
Lower(s) == [i \in 1..Len(s) |-> IF s[i] \in DOMAIN MinusculaDe THEN MinusculaDe[s[i]] ELSE s[i]]

\* str.upper()
Upper(s) == [i \in 1..Len(s) |-> IF s[i] \in DOMAIN MayusculaDe THEN MayusculaDe[s[i]] ELSE s[i]]

\* str.isdigit(): false for the empty string
IsDigit(s) == s # <<>> /\ \A i \in 1..Len(s) : s[i] \in Digitos

ValorDigito(c) == CHOOSE n \in 0..9 : CODIGO_ALFABETO[n + 1] = c

\* int(s) of a string of decimal digits
RECURSIVE IntOf(_)
IntOf(s) == IF s = <<>> THEN 0
            ELSE 10 * IntOf(SubSeq(s, 1, Len(s) - 1)) + ValorDigito(s[Len(s)])

\* "." in filename
TienePunto(s) == \E i \in 1..Len(s) : s[i] = "."

\* filename.rsplit(".", 1)[1]
RSplitExt(s) ==
    LET k == CHOOSE i \in 1..Len(s) : s[i] = "." /\ \A j \in (i + 1)..Len(s) : s[j] # "."
    IN SubSeq(s, k + 1, Len(s))

\* session["username"] of each user
USERNAMES == <<"A", "B", "C", "D">>
Username(u) == USERNAMES[u]


\* ------------------------------------------------------------------ state
VARIABLES
    salas,          \* table Salas: rows [id_sala, codigo, nombre_sala, id_creador]
    miembros,       \* table Miembros_Sala: bag of <<id_sala, id_usuario>> rows
    mensajes,       \* table Mensajes_Sala: rows [id_mensaje, id_sala, id_emisor, ...]
    nextSalaId,     \* AUTO_INCREMENT of Salas
    nextMensajeId,  \* AUTO_INCREMENT of Mensajes_Sala
    conectado,      \* sessions that hold a live Socket.IO connection
    subs,           \* Socket.IO rooms each connection has joined
    proc,           \* the request handlers in flight
    emitido,        \* the events emitted by the last step, with their recipients
    respuesta       \* the response returned by the last step, if it returned one

vars == <<salas, miembros, mensajes, nextSalaId, nextMensajeId, conectado, subs,
          proc, emitido, respuesta>>

db == <<salas, miembros, mensajes, nextSalaId, nextMensajeId>>

router == <<conectado, subs>>

Idle == [pc |-> "idle", id_usuario |-> 0, id_sala |-> 0, id_mensaje |-> 0,
         codigo |-> <<>>, nombre |-> <<>>, contenido |-> <<>>, tipo |-> "NULL"]

SinRespuesta == [status |-> "", rows |-> <<>>, id_mensaje |-> 0]

\* what the caller is told: the flash texts and error strings are not kept apart
Rechazado == [status |-> "rechazado", rows |-> <<>>, id_mensaje |-> 0]

Error500 == [status |-> "500", rows |-> <<>>, id_mensaje |-> 0]

Exito(rows) == [status |-> "ok", rows |-> rows, id_mensaje |-> 0]

\* nombre_sala(tipo_sala, id_sala) and nombre_sala_usuario(id_usuario)
nombre_sala(tipo_sala, id_sala) == <<tipo_sala, id_sala>>

nombre_sala_usuario(id_usuario) == <<"user", id_usuario>>

\* ------------------------------------------------------------ storage layer
SalaPorCodigo(codigo) == {s \in salas : s.codigo = codigo}

SalaPorId(id) == {s \in salas : s.id_sala = id}

\* usuario_en_sala(id_usuario, id_sala)
\* faulty variant: the membership query is not made
usuario_en_sala_sin_consulta(id_usuario, id_sala) == TRUE

usuario_en_sala(id_usuario, id_sala) == BagIn(<<id_sala, id_usuario>>, miembros)

\* UNIQUE (codigo) of Salas
ViolaCodigoUnico(codigo) == SalaPorCodigo(codigo) # {}

\* UNIQUE (id_sala, id_usuario) of Miembros_Sala
ViolaMiembroUnico(id_sala, id_usuario) == BagIn(<<id_sala, id_usuario>>, miembros)

\* FOREIGN KEY (id_sala) REFERENCES Salas ... ON DELETE CASCADE
ViolaLlaveSala(id_sala) == SalaPorId(id_sala) = {}

FilasMiembro(id_sala, id_usuario) == CopiesIn(<<id_sala, id_usuario>>, miembros)

\* faulty variant: the two parameters of the INSERT are swapped
InsertarMiembroInvertido(id_sala, id_usuario) ==
    miembros (+) SetToBag({<<id_usuario, id_sala>>})

InsertarMiembro(id_sala, id_usuario) == miembros (+) SetToBag({<<id_sala, id_usuario>>})

\* DELETE FROM Miembros_Sala WHERE id_sala = %s AND id_usuario = %s
BorrarMiembro(id_sala, id_usuario) ==
    [e \in (DOMAIN miembros) \ {<<id_sala, id_usuario>>} |-> miembros[e]]

\* rows removed from Miembros_Sala and Mensajes_Sala by the cascade of DELETE FROM Salas
MiembrosTrasCascada(id_sala) ==
    [e \in {x \in DOMAIN miembros : x[1] # id_sala} |-> miembros[e]]

MensajesTrasCascada(id_sala) == {m \in mensajes : m.id_sala # id_sala}

\* faulty variant: the id is the number of rows plus one
MensajeIdPorConteo(id_sala, id_emisor, contenido, es_sistema, tipo) ==
    [id_mensaje |-> Cardinality(mensajes) + 1, id_sala |-> id_sala, id_emisor |-> id_emisor,
     contenido |-> contenido, es_sistema |-> es_sistema, tipo_archivo |-> tipo]

Mensaje(id_sala, id_emisor, contenido, es_sistema, tipo) ==
    [id_mensaje |-> nextMensajeId, id_sala |-> id_sala, id_emisor |-> id_emisor,
     contenido |-> contenido, es_sistema |-> es_sistema, tipo_archivo |-> tipo]

\* the text of the join and leave notices
AvisoUnion(u) == <<Username(u), " se unio a la sala.">>

AvisoSalida(u) == <<Username(u), " salio de la sala.">>

\* ----------------------------------------------------------------- router
Suscritos(canal) == {c \in conectado : canal \in subs[c]}

\* socketio.emit(event, payload, to=canal): delivered to the connections in canal now
Emision(event, canal, room_id, payload) ==
    [event |-> event, canal |-> canal, room_id |-> room_id, payload |-> payload,
     to |-> Suscritos(canal)]

Init ==
    /\ salas = {}
    /\ miembros = EmptyBag
    /\ mensajes = {}
    /\ nextSalaId = 1
    /\ nextMensajeId = 1
    /\ conectado = {}
    /\ subs = [c \in Sesiones |-> {}]
    /\ proc = [p \in Procs |-> Idle]
    /\ emitido = <<>>
    /\ respuesta = SinRespuesta

\* a handler returns: flash/redirect or JSON, no emit
Retorna(p, r) ==
    /\ proc' = [proc EXCEPT ![p] = Idle]
    /\ respuesta' = r
    /\ emitido' = <<>>

\* a handler refuses the request with the user-facing text `flash`
Rechaza(p, flash) == Retorna(p, Rechazado)

\* an uncaught database error ends the handler: the open transaction is rolled back
Falla(p) == Retorna(p, Error500)

\* a handler moves on to its next statement
Sigue(p, rec) ==
    /\ proc' = [proc EXCEPT ![p] = rec]
    /\ respuesta' = SinRespuesta
    /\ emitido' = <<>>


\* ------------------------------------------------------------ room codes
\* the codes the random source may draw: CODIGO_LEN characters of CODIGO_ALFABETO
CodigoAzar(d) ==
    [i \in 1..CODIGO_LEN |-> IF i < CODIGO_LEN THEN CODIGO_ALFABETO[1] ELSE CODIGO_ALFABETO[d]]

CodigosAzar == {CodigoAzar(d) : d \in 1..NumCodigos}

\* generar_codigo_sala(): draws until the SELECT finds no room with the code
\* faulty variant: one digit short
generar_codigo_sala_corto ==
    {SubSeq(c, 1, CODIGO_LEN - 1) : c \in {d \in CodigosAzar : SalaPorCodigo(d) = {}}}

\* faulty variant: only the codes of rooms that have members count as taken
generar_codigo_sala_con_miembros ==
    {d \in CodigosAzar :
        \A x \in SalaPorCodigo(d) : \A e \in DOMAIN miembros : e[1] # x.id_sala}

generar_codigo_sala == {codigo \in CodigosAzar : SalaPorCodigo(codigo) = {}}

\* room_join's check of the submitted code
CodigoBienFormado(codigo) == Len(codigo) = CODIGO_LEN /\ IsDigit(codigo)

\* ------------------------------------------------------------ room_create
NombreDeSala(nombre_in) ==
    IF Strip(nombre_in) = <<>> THEN <<"Sala sin nombre">> ELSE Strip(nombre_in)

CreateStart(p, s, nombre_in) ==
    /\ proc[p].pc = "idle"
    /\ UNCHANGED <<db, router>>
    /\ \E codigo \in generar_codigo_sala :
         Sigue(p, [Idle EXCEPT !.pc = "create_insert", !.id_usuario = s,
                               !.codigo = codigo, !.nombre = NombreDeSala(nombre_in)])

\* INSERT INTO Salas; INSERT INTO Miembros_Sala; db.commit()
CreateInsert(p) ==
    /\ proc[p].pc = "create_insert"
    /\ UNCHANGED router
    /\ IF ViolaCodigoUnico(proc[p].codigo)
       THEN /\ UNCHANGED db
            /\ Falla(p)
       ELSE /\ salas' = salas \cup {[id_sala |-> nextSalaId, codigo |-> proc[p].codigo,
                                    nombre_sala |-> proc[p].nombre,
                                    id_creador |-> proc[p].id_usuario]}
            /\ nextSalaId' = nextSalaId + 1
            /\ miembros' = InsertarMiembro(nextSalaId, proc[p].id_usuario)
            /\ UNCHANGED <<mensajes, nextMensajeId>>
            /\ Sigue(p, [Idle EXCEPT !.pc = "create_aviso", !.id_usuario = proc[p].id_usuario,
                                     !.id_sala = nextSalaId])

\* insertar_aviso_sala(id_sala, mensaje, fecha): INSERT INTO Mensajes_Sala; db.commit()
insertar_aviso_sala(p, op, texto, pc_sig) ==
    /\ UNCHANGED <<salas, miembros, nextSalaId, router>>
    /\ IF ViolaLlaveSala(proc[p].id_sala)
       THEN /\ UNCHANGED <<mensajes, nextMensajeId>>
            /\ Falla(p)
       ELSE /\ mensajes' = mensajes \cup {Mensaje(proc[p].id_sala, 0, texto, 1, "NULL")}
            /\ nextMensajeId' = nextMensajeId + 1
            /\ Sigue(p, [proc[p] EXCEPT !.pc = pc_sig, !.contenido = texto])

\* faulty variant: the creator's notice is not stored
CreateSinAviso(p) ==
    /\ proc[p].pc = "create_aviso"
    /\ UNCHANGED <<db, router>>
    /\ Sigue(p, [proc[p] EXCEPT !.pc = "create_emit",
                                !.contenido = AvisoUnion(proc[p].id_usuario)])

CreateAviso(p) ==
    /\ proc[p].pc = "create_aviso"
    /\ insertar_aviso_sala(p, "room_create", AvisoUnion(proc[p].id_usuario), "create_emit")

\* the room_notice event of create, join and leave
EmiteAviso(p) ==
    Emision("room_notice", nombre_sala("room", proc[p].id_sala), proc[p].id_sala,
            proc[p].contenido)

CreateEmit(p) ==
    /\ proc[p].pc = "create_emit"
    /\ UNCHANGED <<db, router>>
    /\ proc' = [proc EXCEPT ![p] = Idle]
    /\ emitido' = <<EmiteAviso(p)>>
    /\ respuesta' = Exito(<<>>)

\* -------------------------------------------------------------- room_join
\* room_join's own SELECT id FROM Miembros_Sala WHERE id_sala = %s AND id_usuario = %s
\* faulty variant: the membership check before the insert never finds the row
YaEsMiembroSinConsulta(id_sala, id_usuario) == FALSE

YaEsMiembro(id_sala, id_usuario) == BagIn(<<id_sala, id_usuario>>, miembros)

JoinStart(p, s, code_in) ==
    LET codigo == Upper(Strip(code_in))
        sala == SalaPorCodigo(codigo)
        R(flash) == Rechaza(p, flash)
    IN
    /\ proc[p].pc = "idle"
    /\ UNCHANGED <<db, router>>
    /\ IF ~CodigoBienFormado(codigo) THEN R("Codigo invalido.")
       ELSE IF sala = {} THEN R("Sala no encontrada.")
       ELSE \E fila \in sala :
              IF YaEsMiembro(fila.id_sala, s) THEN R("Ya estas en esa sala.")
              ELSE Sigue(p, [Idle EXCEPT !.pc = "join_insert", !.id_usuario = s,
                                         !.id_sala = fila.id_sala])

\* INSERT INTO Miembros_Sala; db.commit()
JoinInsert(p) ==
    /\ proc[p].pc = "join_insert"
    /\ UNCHANGED <<salas, nextSalaId, mensajes, nextMensajeId, router>>
    /\ IF ViolaLlaveSala(proc[p].id_sala) \/ ViolaMiembroUnico(proc[p].id_sala, proc[p].id_usuario)
       THEN /\ UNCHANGED miembros
            /\ Falla(p)
       ELSE /\ miembros' = InsertarMiembro(proc[p].id_sala, proc[p].id_usuario)
            /\ Sigue(p, [proc[p] EXCEPT !.pc = "join_aviso"])

JoinAviso(p) ==
    /\ proc[p].pc = "join_aviso"
    /\ insertar_aviso_sala(p, "room_join", AvisoUnion(proc[p].id_usuario), "join_emit")

JoinEmit(p) ==
    /\ proc[p].pc = "join_emit"
    /\ UNCHANGED <<db, router>>
    /\ proc' = [proc EXCEPT ![p] = Idle]
    /\ emitido' = <<EmiteAviso(p),
                    Emision("actualizar_ui", nombre_sala_usuario(proc[p].id_usuario), 0,
                            <<"nueva_sala">>)>>
    /\ respuesta' = Exito(<<>>)

\* ------------------------------------------------------ Socket.IO connect
\* faulty variant: the query has no WHERE clause
SalasDeTodos(id_usuario) == {e[1] : e \in DOMAIN miembros}

SalasDeUsuario(id_usuario) == {e[1] : e \in {x \in DOMAIN miembros : x[2] = id_usuario}}

\* manejar_conexion()
manejar_conexion(s) ==
    /\ s \notin conectado
    /\ conectado' = conectado \cup {s}
    /\ subs' = [subs EXCEPT ![s] =
                  IF s = 0 THEN {}
                  ELSE {nombre_sala_usuario(s)} \cup
                       {nombre_sala("room", id) : id \in SalasDeUsuario(s)}]
    /\ emitido' = <<>>
    /\ respuesta' = SinRespuesta
    /\ UNCHANGED <<db, proc>>


\* ------------------------------------------------------------ room_delete
\* faulty variant: the creator is not compared with the caller
DeleteStartSinCreador(p, s, room_in) ==
    LET room_id == Strip(room_in)
        R(flash) == Rechaza(p, flash)
    IN
    /\ proc[p].pc = "idle"
    /\ UNCHANGED <<db, router>>
    /\ IF ~IsDigit(room_id) THEN R("Sala invalida.")
       ELSE IF SalaPorId(IntOf(room_id)) = {} THEN R("Sala no encontrada.")
       ELSE \E sala \in SalaPorId(IntOf(room_id)) :
              Sigue(p, [Idle EXCEPT !.pc = "delete_exec", !.id_usuario = s,
                                    !.id_sala = sala.id_sala])

\* faulty variant: the caller must also be a member of the room
DeleteStartDeMiembro(p, s, room_in) ==
    LET room_id == Strip(room_in)
        R(flash) == Rechaza(p, flash)
    IN
    /\ proc[p].pc = "idle"
    /\ UNCHANGED <<db, router>>
    /\ IF ~IsDigit(room_id) THEN R("Sala invalida.")
       ELSE IF SalaPorId(IntOf(room_id)) = {} THEN R("Sala no encontrada.")
       ELSE \E sala \in SalaPorId(IntOf(room_id)) :
              IF sala.id_creador # s \/ ~usuario_en_sala(s, sala.id_sala)
              THEN R("Solo el creador puede borrar la sala.")
              ELSE Sigue(p, [Idle EXCEPT !.pc = "delete_exec", !.id_usuario = s,
                                         !.id_sala = sala.id_sala])

DeleteStart(p, s, room_in) ==
    LET room_id == Strip(room_in)
        R(flash) == Rechaza(p, flash)
    IN
    /\ proc[p].pc = "idle"
    /\ UNCHANGED <<db, router>>
    /\ IF ~IsDigit(room_id) THEN R("Sala invalida.")
       ELSE IF SalaPorId(IntOf(room_id)) = {} THEN R("Sala no encontrada.")
       ELSE \E sala \in SalaPorId(IntOf(room_id)) :
              IF sala.id_creador # s THEN R("Solo el creador puede borrar la sala.")
              ELSE Sigue(p, [Idle EXCEPT !.pc = "delete_exec", !.id_usuario = s,
                                         !.id_sala = sala.id_sala])

\* DELETE FROM Salas WHERE id_sala = %s
\* faulty variant: the DELETE matches no row
SalasTrasBorrarNada(id_sala) == salas

SalasTrasBorrar(id_sala) == salas \ SalaPorId(id_sala)

\* cur.execute(DELETE ...); db.commit()
DeleteExec(p) ==
    /\ proc[p].pc = "delete_exec"
    /\ salas' = SalasTrasBorrar(proc[p].id_sala)
    /\ miembros' = MiembrosTrasCascada(proc[p].id_sala)
    /\ mensajes' = MensajesTrasCascada(proc[p].id_sala)
    /\ UNCHANGED <<nextSalaId, nextMensajeId, router>>
    /\ Sigue(p, [proc[p] EXCEPT !.pc = "delete_emit"])

DeleteEmit(p) ==
    /\ proc[p].pc = "delete_emit"
    /\ UNCHANGED <<db, router>>
    /\ proc' = [proc EXCEPT ![p] = Idle]
    /\ emitido' = <<Emision("actualizar_ui", nombre_sala("room", proc[p].id_sala),
                            proc[p].id_sala, <<"sala_eliminada">>)>>
    /\ respuesta' = Exito(<<>>)

\* ------------------------------------------------------------- room_leave
\* room_leave's own SELECT id FROM Miembros_Sala WHERE id_sala = %s AND id_usuario = %s
EsMiembroAlSalir(id_sala, id_usuario) == BagIn(<<id_sala, id_usuario>>, miembros)

LeaveStart(p, s, room_in) ==
    LET room_id == Strip(room_in)
        R(flash) == Rechaza(p, flash)
    IN
    /\ proc[p].pc = "idle"
    /\ UNCHANGED <<db, router>>
    /\ IF ~IsDigit(room_id) THEN R("Sala invalida.")
       ELSE IF ~EsMiembroAlSalir(IntOf(room_id), s) THEN R("No perteneces a esa sala.")
       ELSE Sigue(p, [Idle EXCEPT !.pc = "leave_delete", !.id_usuario = s,
                                  !.id_sala = IntOf(room_id)])

\* DELETE FROM Miembros_Sala WHERE id_sala = %s AND id_usuario = %s; db.commit()
LeaveDelete(p) ==
    /\ proc[p].pc = "leave_delete"
    /\ miembros' = BorrarMiembro(proc[p].id_sala, proc[p].id_usuario)
    /\ UNCHANGED <<salas, nextSalaId, mensajes, nextMensajeId, router>>
    /\ Sigue(p, [proc[p] EXCEPT !.pc = "leave_aviso"])

LeaveAviso(p) ==
    /\ proc[p].pc = "leave_aviso"
    /\ insertar_aviso_sala(p, "room_leave", AvisoSalida(proc[p].id_usuario), "leave_emit")

LeaveEmit(p) ==
    /\ proc[p].pc = "leave_emit"
    /\ UNCHANGED <<db, router>>
    /\ proc' = [proc EXCEPT ![p] = Idle]
    /\ emitido' = <<EmiteAviso(p)>>
    /\ respuesta' = Exito(<<>>)

\* ----------------------------------------------------------- api_messages
MensajesDeSala(id_sala) == {m \in mensajes : m.id_sala = id_sala}

\* ORDER BY id_mensaje DESC LIMIT n
RECURSIVE OrdenDescLimit(_, _)
OrdenDescLimit(filas, n) ==
    IF filas = {} \/ n = 0 THEN <<>>
    ELSE LET ultimo == CHOOSE m \in filas : \A o \in filas : o.id_mensaje <= m.id_mensaje
         IN <<ultimo>> \o OrdenDescLimit(filas \ {ultimo}, n - 1)

\* reversed(rows)
\* faulty variant: the rows are returned in the order of the query
SinInvertir(seq) == seq

Reversed(seq) == [i \in 1..Len(seq) |-> seq[Len(seq) + 1 - i]]

\* LEFT JOIN Usuarios u ON u.id_usuario = m.id_emisor: the row as the JSON carries it
FilaJson(m) ==
    [id_mensaje |-> m.id_mensaje, contenido |-> m.contenido, es_sistema |-> m.es_sistema,
     tipo_archivo |-> m.tipo_archivo,
     sender |-> IF m.id_emisor \in Users THEN Username(m.id_emisor) ELSE "NULL"]

Historial(id_sala) ==
    LET rows == OrdenDescLimit(MensajesDeSala(id_sala), HISTORY_LIMIT)
    IN Reversed([i \in 1..Len(rows) |-> FilaJson(rows[i])])

\* api_messages(): one read-only request, answered from one snapshot
api_messages(p, s, room_type, room_in) ==
    /\ proc[p].pc = "idle"
    /\ UNCHANGED <<db, router>>
    /\ IF ~IsDigit(room_in) \/ room_type # "room" THEN Retorna(p, Exito(<<>>))
       ELSE IF ~usuario_en_sala(s, IntOf(room_in)) THEN Retorna(p, Exito(<<>>))
       ELSE Retorna(p, Exito(Historial(IntOf(room_in))))


\* ----------------------------------------------------------- upload_media
\* archivo_permitido(filename)
\* faulty variant: any extension is accepted
archivo_permitido_todo(filename) == TienePunto(filename)

archivo_permitido(filename) ==
    TienePunto(filename) /\ Lower(RSplitExt(filename)) \in ALLOWED_EXTENSIONS

\* the if/elif chain that derives tipo_archivo from the extension
TipoDeArchivo(ext) ==
    IF ext = <<"m", "p", "3">> THEN "audio"
    ELSE IF ext = <<"m", "p", "4">> THEN "video"
    ELSE IF ext \in {<<"j", "p", "g">>, <<"p", "n", "g">>} THEN "image"
    ELSE "file"

\* Flask refuses a request body longer than MAX_CONTENT_LENGTH when the form is read
CuerpoDemasiadoGrande(content_length) == content_length > MAX_CONTENT_LENGTH

\* file: [presente |-> "file" in request.files, filename |-> file.filename]
UploadStart(p, s, room_in, file, content_length) ==
    LET room_id == Strip(room_in)
        R(flash) == Rechaza(p, flash)
    IN
    /\ proc[p].pc = "idle"
    /\ UNCHANGED <<db, router>>
    /\ IF CuerpoDemasiadoGrande(content_length) THEN R("413")
       ELSE IF ~IsDigit(room_id) THEN R("Sala invalida.")
       ELSE IF ~usuario_en_sala(s, IntOf(room_id)) THEN R("No eres miembro de esa sala.")
       ELSE IF ~file.presente THEN R("No se subio archivo.")
       ELSE IF file.filename = <<>> \/ ~archivo_permitido(file.filename)
            THEN R("Archivo no permitido.")
       ELSE Sigue(p, [Idle EXCEPT !.pc = "upload_insert", !.id_usuario = s,
                                  !.id_sala = IntOf(room_id),
                                  !.contenido = file.filename,
                                  !.tipo = TipoDeArchivo(Lower(RSplitExt(file.filename)))])

\* INSERT INTO Mensajes_Sala (..., tipo_archivo, archivo_datos); db.commit()
UploadInsert(p) ==
    /\ proc[p].pc = "upload_insert"
    /\ UNCHANGED <<salas, miembros, nextSalaId, router>>
    /\ IF ViolaLlaveSala(proc[p].id_sala)
       THEN /\ UNCHANGED <<mensajes, nextMensajeId>>
            /\ Falla(p)
       ELSE /\ mensajes' = mensajes \cup
                 {Mensaje(proc[p].id_sala, proc[p].id_usuario, proc[p].contenido, 0, proc[p].tipo)}
            /\ nextMensajeId' = nextMensajeId + 1
            /\ Sigue(p, [proc[p] EXCEPT !.pc = "upload_emit", !.id_mensaje = nextMensajeId])

UploadEmit(p) ==
    /\ proc[p].pc = "upload_emit"
    /\ UNCHANGED <<db, router>>
    /\ proc' = [proc EXCEPT ![p] = Idle]
    /\ emitido' = <<Emision("media_message", nombre_sala("room", proc[p].id_sala),
                            proc[p].id_sala,
                            <<proc[p].tipo, Username(proc[p].id_usuario)>>)>>
    /\ respuesta' = [Exito(<<>>) EXCEPT !.id_mensaje = proc[p].id_mensaje]

\* ----------------------------------------------------- Socket.IO send_message
\* body = (data.get("body") or "").strip()
\* faulty variant: the body is not stripped
CuerpoSinStrip(body_in) == body_in

CuerpoDeMensaje(body_in) == Strip(body_in)

\* manejar_envio_mensaje(data), on the connection of session s
SendStart(p, s, room_type, room_in, body_in) ==
    LET body == CuerpoDeMensaje(body_in)
        R(flash) == Rechaza(p, flash)
    IN
    /\ proc[p].pc = "idle"
    /\ s \in conectado
    /\ UNCHANGED <<db, router>>
    /\ IF s = 0 THEN R("sin sesion")
       ELSE IF room_type # "room" \/ ~IsDigit(room_in) \/ body = <<>> THEN R("invalido")
       ELSE IF ~usuario_en_sala(s, IntOf(room_in)) THEN R("no miembro")
       ELSE Sigue(p, [Idle EXCEPT !.pc = "send_insert", !.id_usuario = s,
                                  !.id_sala = IntOf(room_in), !.contenido = body])

\* INSERT INTO Mensajes_Sala (...); db.commit()
SendInsert(p) ==
    /\ proc[p].pc = "send_insert"
    /\ UNCHANGED <<salas, miembros, nextSalaId, router>>
    /\ IF ViolaLlaveSala(proc[p].id_sala)
       THEN /\ UNCHANGED <<mensajes, nextMensajeId>>
            /\ Falla(p)
       ELSE /\ mensajes' = mensajes \cup
                 {Mensaje(proc[p].id_sala, proc[p].id_usuario, proc[p].contenido, 0, "NULL")}
            /\ nextMensajeId' = nextMensajeId + 1
            /\ Sigue(p, [proc[p] EXCEPT !.pc = "send_emit", !.id_mensaje = nextMensajeId])

SendEmit(p) ==
    /\ proc[p].pc = "send_emit"
    /\ UNCHANGED <<db, router>>
    /\ proc' = [proc EXCEPT ![p] = Idle]
    /\ emitido' = <<Emision("message", nombre_sala("room", proc[p].id_sala), proc[p].id_sala,
                            <<proc[p].contenido, <<Username(proc[p].id_usuario)>>>>)>>
    /\ respuesta' = Exito(<<>>)

\* ------------------------------------------------------------- the inputs
Archivo(nombre) == [presente |-> TRUE, filename |-> nombre]

SinArchivo == [presente |-> FALSE, filename |-> <<>>]

RoomIds == {<<CODIGO_ALFABETO[n + 1]>> : n \in 1..MaxSalas}

Upload(room, file, length) == [room |-> room, file |-> file, length |-> length]

Send(room_type, room, body) == [room_type |-> room_type, room |-> room, body |-> body]

Fetch(room_type, room) == [room_type |-> room_type, room |-> room]

Mp3 == Archivo(<<"a", ".", "m", "p", "3">>)

Hi == <<"h", "i">>

Test == <<"T", "e", "s", "t">>

SalasInvalidas == {<<"x">>, <<>>}

\* requests with the validation and authorization cases of every handler, run one at a time
Entradas ==
    [nombres |-> {Test, <<" ">>},
     codigos |-> CodigosAzar \cup
                 {<<" ">> \o c \o <<" ">> : c \in CodigosAzar} \cup
                 {<<"0", "0", "0", "0", "0">>, <<"0", "0", "0", "0", "0", "a">>, <<>>},
     rooms |-> RoomIds \cup SalasInvalidas,
     fetches |-> {Fetch("room", r) : r \in RoomIds \cup SalasInvalidas} \cup
                 {Fetch("dm", r) : r \in RoomIds},
     uploads |-> {Upload(r, f, 1) : r \in RoomIds, f \in {Mp3, Archivo(<<"a", ".", "e", "x", "e">>)}} \cup
                 {Upload(r, Mp3, 1) : r \in SalasInvalidas},
     sends |-> {Send("room", r, b) : r \in RoomIds, b \in {Hi, <<" ", "h", "i", " ">>, <<" ">>, <<>>}} \cup
               {Send("dm", r, Hi) : r \in RoomIds} \cup
               {Send("room", r, Hi) : r \in SalasInvalidas},
     conexiones |-> Sesiones,
     max_salas |-> MaxSalas,
     max_mensajes |-> MaxMensajes]

\* uploads of every kind of file and size, run one at a time
EntradasMedia ==
    [nombres |-> {Test},
     codigos |-> CodigosAzar,
     rooms |-> RoomIds,
     fetches |-> {Fetch("room", r) : r \in RoomIds},
     uploads |-> {Upload(r, f, n) : r \in RoomIds,
                                   f \in {Mp3, Archivo(<<"a", ".", "M", "P", "4">>),
                                          Archivo(<<"a", ".", "j", "p", "g">>),
                                          Archivo(<<"a", ".", "p", "n", "g">>),
                                          Archivo(<<"a", ".", "e", "x", "e">>),
                                          Archivo(<<"m", "p", "3">>),
                                          Archivo(<<"a", ".", "p", "n", "g", ".", "e", "x", "e">>),
                                          Archivo(<<>>), SinArchivo},
                                   n \in {1, MAX_CONTENT_LENGTH + 1}},
     sends |-> {Send("room", r, Hi) : r \in RoomIds},
     conexiones |-> Users,
     max_salas |-> MaxSalasMedia,
     max_mensajes |-> MaxMensajes]

\* the requests of the end-to-end scenario, run one at a time
EntradasEscenario ==
    [nombres |-> {Test},
     codigos |-> CodigosAzar,
     rooms |-> RoomIds,
     fetches |-> {Fetch("room", r) : r \in RoomIds},
     uploads |-> {Upload(r, Mp3, 1) : r \in RoomIds},
     sends |-> {Send("room", r, b) : r \in RoomIds, b \in {Hi, <<"h", "e", "l", "l", "o">>}},
     conexiones |-> Users,
     max_salas |-> MaxSalasEscenario,
     max_mensajes |-> MaxMensajesEscenario]

\* requests that pass validation, run concurrently on one room
EntradasConc ==
    [nombres |-> {Test},
     codigos |-> CodigosAzar,
     rooms |-> RoomIds,
     fetches |-> {Fetch("room", r) : r \in RoomIds},
     uploads |-> {Upload(r, Mp3, 1) : r \in RoomIds},
     sends |-> {Send("room", r, Hi) : r \in RoomIds},
     conexiones |-> Users,
     max_salas |-> MaxSalasConc,
     max_mensajes |-> MaxMensajes]

\* the same requests, with rooms created concurrently
EntradasCrear ==
    [EntradasConc EXCEPT !.max_salas = MaxSalas, !.max_mensajes = MaxMensajesCrear]

\* the validation and authorization cases of every handler on one room
EntradasRechazo ==
    [Entradas EXCEPT !.max_salas = MaxSalasRechazo, !.conexiones = Users]

\* ---------------------------------------------------------- specification
\* the workers are interchangeable: a request is taken by the first idle one
Libre(p) == proc[p].pc = "idle" /\ \A q \in Procs : q < p => proc[q].pc # "idle"

\* requests being served: each inserts at most one room and one message
EnVuelo == Cardinality({p \in Procs : proc[p].pc # "idle"})

CabeMensaje(E) == nextMensajeId + EnVuelo <= E.max_mensajes

CabeSala(E) == nextSalaId + EnVuelo <= E.max_salas

\* the request the handler accepted fits in the bounds of the model
Aceptada(p, cabe) == proc'[p].pc # "idle" => cabe

\* worker p takes the next request; en_serie: only once the previous one was answered
Toma(p, en_serie) == Libre(p) /\ (en_serie => \A q \in Procs : proc[q].pc = "idle")

Start(p, E, en_serie) ==
    \/ \E s \in Users, nombre_in \in E.nombres :
         /\ Toma(p, en_serie)
         /\ CreateStart(p, s, nombre_in)
         /\ Aceptada(p, CabeSala(E) /\ CabeMensaje(E))
    \/ \E s \in Users, code_in \in E.codigos :
         Toma(p, en_serie) /\ JoinStart(p, s, code_in) /\ Aceptada(p, CabeMensaje(E))
    \/ \E s \in Users, room_in \in E.rooms : Toma(p, en_serie) /\ DeleteStart(p, s, room_in)
    \/ \E s \in Users, room_in \in E.rooms :
         Toma(p, en_serie) /\ LeaveStart(p, s, room_in) /\ Aceptada(p, CabeMensaje(E))
    \/ \E s \in Users, f \in E.fetches :
         Toma(p, en_serie) /\ api_messages(p, s, f.room_type, f.room)
    \/ \E s \in Users, u \in E.uploads :
         /\ Toma(p, en_serie)
         /\ UploadStart(p, s, u.room, u.file, u.length)
         /\ Aceptada(p, CabeMensaje(E))
    \/ \E s \in Sesiones, m \in E.sends :
         /\ Toma(p, en_serie)
         /\ SendStart(p, s, m.room_type, m.room, m.body)
         /\ Aceptada(p, CabeMensaje(E))

Step(p) ==
    \/ CreateInsert(p) \/ CreateAviso(p) \/ CreateEmit(p)
    \/ JoinInsert(p) \/ JoinAviso(p) \/ JoinEmit(p)
    \/ DeleteExec(p) \/ DeleteEmit(p)
    \/ LeaveDelete(p) \/ LeaveAviso(p) \/ LeaveEmit(p)
    \/ UploadInsert(p) \/ UploadEmit(p)
    \/ SendInsert(p) \/ SendEmit(p)

Connect(E) == \E s \in E.conexiones : manejar_conexion(s)

\* handlers of different requests interleave at their commits and emits
Next ==
    \/ \E p \in Procs : Start(p, EntradasConc, FALSE)
    \/ \E p \in Procs : Step(p)
    \/ Connect(EntradasConc)

Spec == Init /\ [][Next]_vars

\* one request is served to its end before the next one is taken
NextSeq ==
    \/ \E p \in Procs : Start(p, Entradas, TRUE)
    \/ \E p \in Procs : Step(p)
    \/ Connect(Entradas)

NextCrear ==
    \/ \E p \in Procs : Start(p, EntradasCrear, FALSE)
    \/ \E p \in Procs : Step(p)
    \/ Connect(EntradasCrear)

SpecCrear == Init /\ [][NextCrear]_vars

SpecSeq == Init /\ [][NextSeq]_vars

NextMedia ==
    \/ \E p \in Procs : Start(p, EntradasMedia, TRUE)
    \/ \E p \in Procs : Step(p)
    \/ Connect(EntradasMedia)

SpecMedia == Init /\ [][NextMedia]_vars

NextEscenario ==
    \/ \E p \in Procs : Start(p, EntradasEscenario, TRUE)
    \/ \E p \in Procs : Step(p)
    \/ Connect(EntradasEscenario)

SpecEscenario == Init /\ [][NextEscenario]_vars

NextRechazo ==
    \/ \E p \in Procs : Start(p, EntradasRechazo, TRUE)
    \/ \E p \in Procs : Step(p)
    \/ Connect(EntradasRechazo)

SpecRechazo == Init /\ [][NextRechazo]_vars


\* ------------------------------------------------- history of a filled log
\* Tables left by user 1 creating rooms 1 and 2 and then sending n - 2 texts,
\* spread over the two rooms in one of three ways.
SalaDelTexto(k, i) ==
    CASE k = 1 -> 1
      [] k = 2 -> IF i % 2 = 1 THEN 1 ELSE 2
      [] k = 3 -> IF i % 5 = 0 THEN 2 ELSE 1

MensajesDeHistorial(n, k) ==
    {[id_mensaje |-> i, id_sala |-> i, id_emisor |-> 0, contenido |-> AvisoUnion(1),
      es_sistema |-> 1, tipo_archivo |-> "NULL"] : i \in 1..2} \cup
    {[id_mensaje |-> i, id_sala |-> SalaDelTexto(k, i), id_emisor |-> 1, contenido |-> Hi,
      es_sistema |-> 0, tipo_archivo |-> "NULL"] : i \in 3..n}

InitHistorial ==
    /\ salas = {[id_sala |-> i, codigo |-> CodigoAzar(i), nombre_sala |-> Test,
                 id_creador |-> 1] : i \in 1..2}
    /\ miembros = SetToBag({<<1, 1>>, <<2, 1>>})
    /\ \E n \in 2..MaxHistorial, k \in 1..3 :
         /\ mensajes = MensajesDeHistorial(n, k)
         /\ nextMensajeId = n + 1
    /\ nextSalaId = 3
    /\ conectado = {}
    /\ subs = [c \in Sesiones |-> {}]
    /\ proc = [p \in Procs |-> Idle]
    /\ emitido = <<>>
    /\ respuesta = SinRespuesta

NextHistorial ==
    \E p \in Procs, s \in Users, f \in Entradas.fetches :
        Toma(p, TRUE) /\ api_messages(p, s, f.room_type, f.room)

SpecHistorial == InitHistorial /\ [][NextHistorial]_vars


\* ================================================================ claims
Min(a, b) == IF a < b THEN a ELSE b

Ocioso == \A p \in Procs : proc[p].pc = "idle"

EventosDeSala == {"message", "media_message", "room_notice"}

\* the rows of room r in the log, by the texts they hold
AvisosDe(r, texto) ==
    {m \in mensajes : m.id_sala = r /\ m.es_sistema = 1 /\ m.contenido = texto}

\* C1: a message, media_message or room_notice event of room R is delivered only
\* to connections whose user is a member of R at the moment of delivery.
C1_SoloMiembrosReciben ==
    \A i \in 1..Len(emitido) :
        emitido[i].event \in EventosDeSala =>
            \A c \in emitido[i].to :
                c \in Users /\ <<emitido[i].room_id, c>> \in DOMAIN miembros

\* C4: the step that commits DeleteRoom of room R leaves no Room row of R and no
\* Membership row and no Message row that references R's id.
C4_BorrarSalaCascada ==
    [][\A p \in Procs :
          (proc[p].pc = "delete_exec" /\ proc'[p].pc # "delete_exec") =>
              LET r == proc[p].id_sala IN
              /\ proc'[p].pc = "delete_emit"
              /\ \A s \in salas' : s.id_sala # r
              /\ \A e \in DOMAIN miembros' : e[1] # r
              /\ \A m \in mensajes' : m.id_sala # r
              /\ \A s \in salas : s.id_sala # r => s \in salas'
              /\ \A m \in mensajes : m.id_sala # r => m \in mensajes'
              /\ \A e \in DOMAIN miembros : e[1] # r => CopiesIn(e, miembros') = miembros[e]]_vars

\* C4 witness: the delete of a room that had members and messages has committed.
C4_Witness ==
    \E p \in Procs :
        /\ proc[p].pc = "delete_emit"
        /\ SalaPorId(proc[p].id_sala) = {}
        /\ nextMensajeId > 2
        /\ salas # {}
        /\ mensajes # {}

\* C5: FetchHistory by a member of room R whose log holds N messages returns the
\* min(N, 50) messages of R with the largest ids, in strictly ascending id
\* order, and no message of another room.
C5_HistorialUltimos50 ==
    [][\A p \in Procs, s \in Users, f \in Entradas.fetches :
          (/\ f.room_type = "room"
           /\ IsDigit(f.room)
           /\ <<IntOf(f.room), s>> \in DOMAIN miembros
           /\ Libre(p)
           /\ api_messages(p, s, f.room_type, f.room)) =>
              LET ids == {m.id_mensaje : m \in {x \in mensajes : x.id_sala = IntOf(f.room)}}
                  rows == respuesta'.rows
                  got == {rows[i].id_mensaje : i \in 1..Len(rows)}
              IN /\ Len(rows) = Min(Cardinality(ids), 50)
                 /\ \A i \in 1..Len(rows) - 1 : rows[i].id_mensaje < rows[i + 1].id_mensaje
                 /\ got \subseteq ids
                 /\ \A x \in ids \ got, y \in got : x < y]_vars

\* C5 witness: a fetch answered with 50 rows of a room that holds more than 50,
\* while a later message of the other room exists.
C5_Witness ==
    /\ Len(respuesta.rows) = 50
    /\ \E r \in 1..2 :
         /\ Cardinality(MensajesDeSala(r)) > 50
         /\ \E m \in MensajesDeSala(r) : m.id_mensaje = respuesta.rows[50].id_mensaje
         /\ \E o \in mensajes : o.id_sala # r /\ o.id_mensaje > respuesta.rows[1].id_mensaje

\* C8: no state is reachable in which the Membership change of a CreateRoom,
\* JoinRoom or LeaveRoom is committed and its "joined"/"left" notice is not:
\* in every room the joins and leaves recorded by notices add up to the
\* Membership rows.
C8_MembresiaConAviso ==
    \A s \in salas, u \in Users :
        Cardinality(AvisosDe(s.id_sala, <<Username(u), " se unio a la sala.">>))
          - Cardinality(AvisosDe(s.id_sala, <<Username(u), " salio de la sala.">>))
        = CopiesIn(<<s.id_sala, u>>, miembros)

\* C10: whenever no request is being served, every live connection of a user who
\* is a member of room R is subscribed to R's channel.
C10_MiembroSuscrito ==
    Ocioso =>
        \A c \in conectado \cap Users, e \in DOMAIN miembros :
            e[2] = c => <<"room", e[1]>> \in subs[c]


\* C2: JoinRoom with the code of an existing room the user is not a member of
\* is accepted and creates exactly one new Membership row and exactly one
\* system notice; JoinRoom by a member is refused and creates no row and no
\* message; no (room, user) pair ever has two Membership rows, also when the
\* same user's requests run concurrently. A request that does not complete
\* (the storage layer refuses the second of two concurrent inserts, or the room
\* is deleted under it) ends in a server error and adds nothing further.
C2_UnirseUnaVez ==
    [][/\ \A p \in Procs, s \in Users, code \in EntradasConc.codigos :
            JoinStart(p, s, code) =>
                LET sala == {x \in salas : x.codigo = code} IN
                IF sala = {} THEN proc'[p].pc = "idle"
                ELSE IF \A x \in sala : <<x.id_sala, s>> \notin DOMAIN miembros
                     THEN proc'[p].pc = "join_insert"
                     ELSE proc'[p].pc = "idle" /\ respuesta' = Rechazado /\ UNCHANGED db
       /\ \A p \in Procs :
            LET r == proc[p].id_sala
                u == proc[p].id_usuario
            IN
            /\ (proc[p].pc = "join_insert" /\ proc'[p] # proc[p]) =>
                  \/ /\ proc'[p].pc = "join_aviso"
                     /\ <<r, u>> \notin DOMAIN miembros
                     /\ DOMAIN miembros' = DOMAIN miembros \cup {<<r, u>>}
                     /\ miembros'[<<r, u>>] = 1
                     /\ \A e \in DOMAIN miembros : miembros'[e] = miembros[e]
                     /\ UNCHANGED <<salas, mensajes>>
                  \/ /\ proc'[p].pc = "idle"
                     /\ respuesta' = Error500
                     /\ UNCHANGED db
            /\ (proc[p].pc = "join_aviso" /\ proc'[p] # proc[p]) =>
                  \/ /\ proc'[p].pc = "join_emit"
                     /\ mensajes \subseteq mensajes'
                     /\ Cardinality(mensajes' \ mensajes) = 1
                     /\ \A m \in mensajes' \ mensajes :
                          /\ m.id_sala = r
                          /\ m.es_sistema = 1
                          /\ m.contenido = <<Username(u), " se unio a la sala.">>
                     /\ UNCHANGED <<salas, miembros>>
                  \/ /\ proc'[p].pc = "idle"
                     /\ respuesta' = Error500
                     /\ \A s \in salas : s.id_sala # r
                     /\ UNCHANGED db
            /\ (proc[p].pc = "join_emit" /\ proc'[p] # proc[p]) =>
                  proc'[p].pc = "idle" /\ respuesta'.status = "ok" /\ UNCHANGED db
       /\ \A e \in DOMAIN miembros' : miembros'[e] <= 1]_vars

\* C2 witness: of two concurrent JoinRoom requests of one user for one room, one
\* has inserted the Membership row and the other was refused by the storage layer.
C2_Witness ==
    /\ respuesta = Error500
    /\ \E s \in salas, p \in Procs :
         /\ proc[p].pc \in {"join_aviso", "join_emit"}
         /\ proc[p].id_sala = s.id_sala
         /\ CopiesIn(<<s.id_sala, proc[p].id_usuario>>, miembros) = 1

\* C3: every code CreateRoom stores is exactly 6 decimal digits and differs from
\* the code of every room existing when the row is inserted; no two existing
\* rooms share a code, also when rooms are created concurrently.
C3_CodigoUnico ==
    [][/\ \A s \in salas' \ salas :
            /\ Len(s.codigo) = 6
            /\ \A i \in 1..Len(s.codigo) :
                 s.codigo[i] \in {"0", "1", "2", "3", "4", "5", "6", "7", "8", "9"}
            /\ \A o \in salas : o.codigo # s.codigo
       /\ \A a \in salas', b \in salas' : a.codigo = b.codigo => a = b]_vars

\* C3 witness: two CreateRoom requests in flight together have both inserted
\* their room.
C3_Witness ==
    /\ Cardinality(salas) = 2
    /\ \A p \in Procs : proc[p].pc \in {"create_aviso", "create_emit"}


\* ------------------------------------------------------------------ C6
Mp3Ext == <<"m", "p", "3">>

Mp4Ext == <<"m", "p", "4">>

JpgExt == <<"j", "p", "g">>

PngExt == <<"p", "n", "g">>

\* nombre ends in a dot followed by ext, in either letter case
TerminaEn(nombre, ext) ==
    /\ Len(nombre) > Len(ext)
    /\ nombre[Len(nombre) - Len(ext)] = "."
    /\ \A i \in 1..Len(ext) :
         nombre[Len(nombre) - Len(ext) + i] \in
             {ext[i]} \cup {MayusculaDe[c] : c \in {ext[i]} \cap DOMAIN MayusculaDe}

ExtensionAdmitida(nombre) == \E ext \in {Mp3Ext, Mp4Ext, JpgExt, PngExt} : TerminaEn(nombre, ext)

ClaseDeMedio(nombre) ==
    IF TerminaEn(nombre, Mp3Ext) THEN "audio"
    ELSE IF TerminaEn(nombre, Mp4Ext) THEN "video"
    ELSE "image"

\* the request was refused: no table and no subscription changed, nothing was emitted
Rechazo(p) ==
    /\ proc'[p].pc = "idle"
    /\ respuesta' = Rechazado
    /\ emitido' = <<>>
    /\ UNCHANGED <<db, router>>

\* C6: an upload whose filename extension (compared without regard to letter
\* case) is not mp3, mp4, jpg or png is refused, creates no Message row and
\* broadcasts nothing; an upload longer than 20 MiB is refused with no storage
\* write, so that any other outcome of an upload is not the outcome of such a
\* request; an accepted upload creates exactly one Message row, of kind audio
\* for mp3, video for mp4 and image for jpg and png.
C6_SubidaValidada ==
    [][/\ \A p \in Procs :
            (Libre(p) /\ ~Rechazo(p)) =>
                \A s \in Users, u \in EntradasMedia.uploads :
                    (\/ ~u.file.presente
                     \/ ~ExtensionAdmitida(u.file.filename)
                     \/ u.length > 20 * 1024 * 1024)
                        => ~UploadStart(p, s, u.room, u.file, u.length)
       /\ \A p \in Procs :
            (proc[p].pc = "upload_insert" /\ proc'[p] # proc[p]) =>
                /\ mensajes \subseteq mensajes'
                /\ Cardinality(mensajes' \ mensajes) = 1
                /\ \A m \in mensajes' \ mensajes :
                     /\ m.id_sala = proc[p].id_sala
                     /\ m.id_emisor = proc[p].id_usuario
                     /\ m.contenido = proc[p].contenido
                     /\ m.es_sistema = 0
                     /\ ExtensionAdmitida(m.contenido)
                     /\ m.tipo_archivo = ClaseDeMedio(m.contenido)
                /\ UNCHANGED <<salas, miembros>>
       /\ \A p \in Procs :
            (proc[p].pc = "upload_emit" /\ proc'[p] # proc[p]) =>
                /\ UNCHANGED db
                /\ Len(emitido') = 1
                /\ emitido'[1].event = "media_message"]_vars

\* C6 witness: a video and an image were stored and the next upload was refused.
C6_Witness ==
    /\ respuesta = Rechazado
    /\ \E m \in mensajes : m.tipo_archivo = "video" /\ m.contenido = <<"a", ".", "M", "P", "4">>
    /\ \E m \in mensajes : m.tipo_archivo = "image"

\* ------------------------------------------------------------------ C9
\* the 6-character cores of code_in, what is left of it without surrounding blanks
Nucleos(code_in) ==
    {SubSeq(code_in, i + 1, i + 6) : i \in
        {j \in 0..(Len(code_in) - 6) :
            \A k \in (1..j) \cup ((j + 7)..Len(code_in)) : code_in[k] \in Espacios}}

CodigoMalFormado(code_in) ==
    \A c \in Nucleos(code_in) : \E i \in 1..6 : c[i] \notin Digitos

EsLaSala(room_in, id) == id \in 1..9 /\ room_in = <<CODIGO_ALFABETO[id + 1]>>

EsMiembroDe(s, room_in) == \E e \in DOMAIN miembros : e[2] = s /\ EsLaSala(room_in, e[1])

SoloEspacios(body_in) == \A i \in 1..Len(body_in) : body_in[i] \in Espacios

\* C9: a request refused for a validation or authorization reason (JoinRoom
\* with a malformed or unknown code or by a member; LeaveRoom, SendMessage,
\* UploadMedia by a non-member; SendMessage with a body that is empty once
\* trimmed; DeleteRoom by a non-creator or of a missing room) leaves the
\* tables and every subscription set unchanged and emits nothing: no step of
\* such a request is anything but a refusal.
C9_RechazoSinEfecto ==
    [][\A p \in Procs :
        (Libre(p) /\ ~Rechazo(p)) =>
           /\ \A s \in Users, code \in EntradasRechazo.codigos :
                (\/ CodigoMalFormado(code)
                 \/ \A x \in salas : x.codigo \notin Nucleos(code)
                 \/ \E x \in salas : x.codigo \in Nucleos(code)
                                      /\ <<x.id_sala, s>> \in DOMAIN miembros)
                    => ~JoinStart(p, s, code)
           /\ \A s \in Users, room \in EntradasRechazo.rooms :
                /\ ~EsMiembroDe(s, room) => ~LeaveStart(p, s, room)
                /\ (\A x \in salas : ~(EsLaSala(room, x.id_sala) /\ x.id_creador = s))
                      => ~DeleteStart(p, s, room)
           /\ \A s \in Users, u \in EntradasRechazo.uploads :
                ~EsMiembroDe(s, u.room) => ~UploadStart(p, s, u.room, u.file, u.length)
           /\ \A s \in Sesiones, m \in EntradasRechazo.sends :
                (~EsMiembroDe(s, m.room) \/ SoloEspacios(m.body))
                    => ~SendStart(p, s, m.room_type, m.room, m.body)]_vars

\* C9 witness: a request was refused while a room with two members and a text
\* message existed and a member was connected and subscribed.
C9_Witness ==
    /\ respuesta = Rechazado
    /\ \E x \in salas :
         /\ \A u \in Users : <<x.id_sala, u>> \in DOMAIN miembros
         /\ \E m \in mensajes : m.id_sala = x.id_sala /\ m.es_sistema = 0
         /\ \E u \in Users : u \in conectado /\ nombre_sala("room", x.id_sala) \in subs[u]


\* ------------------------------------------------------------------ C7
Hello == <<"h", "e", "l", "l", "o">>

SeUnio(u) == <<USERNAMES[u], " se unio a la sala.">>

\* The tables of the scenario: room r, named "Test", was created by a with a
\* 6-digit code; b joined; then "hi" and then "hello" were sent; nobody left
\* and nothing else was sent.
Escenario(a, b, r) ==
    LET M == {m \in mensajes : m.id_sala = r} IN
    /\ a # b
    /\ \E x \in salas :
         x.id_sala = r /\ x.id_creador = a /\ x.nombre_sala = Test /\ Len(x.codigo) = 6
    /\ {u \in Users : <<r, u>> \in DOMAIN miembros} = {a, b}
    /\ \A m \in M : m.es_sistema = 1 => m.contenido[2] # " salio de la sala."
    /\ \E j \in M, h1 \in M, h2 \in M :
         /\ j.es_sistema = 1 /\ j.contenido = SeUnio(b)
         /\ {m \in M : m.es_sistema = 0} = {h1, h2}
         /\ h1.contenido = Hi /\ h1.tipo_archivo = "NULL"
         /\ h2.contenido = Hello /\ h2.tipo_archivo = "NULL"
         /\ j.id_mensaje < h1.id_mensaje
         /\ h1.id_mensaje < h2.id_mensaje

Contenidos(rows) == [i \in 1..Len(rows) |-> rows[i].contenido]

\* worker p answers FetchHistory(room r) of user s in this step
FetchHistory(p, s, r) == Libre(p) /\ api_messages(p, s, "room", <<CODIGO_ALFABETO[r + 1]>>)

\* FetchHistory of a room that does not exist returns the empty list
HistorialVacioSinSala ==
    \A p \in Procs, s \in Users, r \in 1..MaxSalasEscenario :
        ((\A x \in salas : x.id_sala # r) /\ FetchHistory(p, s, r)) => respuesta'.rows = <<>>

\* C7 as stated: in the scenario FetchHistory by A returns exactly [notice
\* "B joined", "hi", "hello"], and after DeleteRoom FetchHistory by A and by B
\* returns the empty list.
C7_EscenarioOriginal ==
    [][/\ \A p \in Procs, a \in Users, b \in Users, r \in 1..MaxSalasEscenario :
            (Escenario(a, b, r) /\ FetchHistory(p, a, r)) =>
                Contenidos(respuesta'.rows) = <<SeUnio(b), Hi, Hello>>
       /\ HistorialVacioSinSala]_vars

\* C7 amended: in the scenario FetchHistory by A returns exactly [notice
\* "A joined", notice "B joined", "hi", "hello"]: CreateRoom stores a notice for
\* the creator; after DeleteRoom FetchHistory by A and by B returns the empty list.
C7_EscenarioConAvisoDelCreador ==
    [][/\ \A p \in Procs, a \in Users, b \in Users, r \in 1..MaxSalasEscenario :
            (Escenario(a, b, r) /\ FetchHistory(p, a, r)) =>
                /\ Contenidos(respuesta'.rows) = <<SeUnio(a), SeUnio(b), Hi, Hello>>
                /\ [i \in 1..Len(respuesta'.rows) |-> respuesta'.rows[i].es_sistema]
                      = <<1, 1, 0, 0>>
       /\ HistorialVacioSinSala]_vars

\* C7 witness: the history of the scenario was just returned to A.
C7_Witness ==
    /\ \E a \in Users, b \in Users, r \in 1..MaxSalasEscenario : Escenario(a, b, r)
    /\ respuesta.status = "ok"
    /\ Len(respuesta.rows) = 4
    /\ respuesta.rows[3].contenido = Hi


\* ------------------------------------------------------------------ C11
\* C11: FetchHistory(user, R) returns messages only when the caller is a member
\* of R at the time of the fetch, and then only messages of R: a user who never
\* joined R, who left R, or whose room R was deleted gets an empty result.
C11_HistorialSoloMiembros ==
    [][\A p \in Procs, s \in Users, f \in EntradasRechazo.fetches :
          (Libre(p) /\ api_messages(p, s, f.room_type, f.room)) =>
              /\ ~EsMiembroDe(s, f.room) => respuesta'.rows = <<>>
              /\ \A i \in 1..Len(respuesta'.rows) :
                   \E m \in mensajes :
                       /\ m.id_mensaje = respuesta'.rows[i].id_mensaje
                       /\ EsLaSala(f.room, m.id_sala)
                       /\ <<m.id_sala, s>> \in DOMAIN miembros]_vars

\* C11 witness: a fetch was answered with the empty list while a room with
\* messages exists that a user has left.
C11_Witness ==
    /\ respuesta.status = "ok"
    /\ respuesta.rows = <<>>
    /\ emitido = <<>>
    /\ \E x \in salas, u \in Users :
         /\ <<x.id_sala, u>> \notin DOMAIN miembros
         /\ AvisosDe(x.id_sala, <<USERNAMES[u], " salio de la sala.">>) # {}


\* ------------------------------------------------------------------ C12
\* C12: when two concurrent CreateRoom operations drew the same code, the one
\* whose insert conflicts retries, so that no CreateRoom ends in failure at its
\* insert and no two rooms hold the same code.
C12_CrearReintenta ==
    [][\A p \in Procs :
          (proc[p].pc = "create_insert" /\ proc'[p] # proc[p]) =>
              /\ respuesta' # Error500
              /\ proc'[p].pc # "idle"
              /\ \A a \in salas', b \in salas' : a.codigo = b.codigo => a = b]_vars


\* ------------------------------------------------------------------ C13
\* C13: the message events of a room reach its subscribers in the order of
\* their commits: when the event of a message is broadcast to a subscribed
\* connection, no message of the same room with a smaller id is committed and
\* still waiting to be broadcast.
C13_DifusionEnOrdenDeCommit ==
    [][\A p \in Procs :
          (/\ proc[p].pc = "send_emit"
           /\ proc'[p].pc = "idle"
           /\ Len(emitido') = 1
           /\ emitido'[1].event = "message"
           /\ emitido'[1].to # {}) =>
              \A q \in Procs \ {p} :
                  ~(/\ proc[q].pc = "send_emit"
                    /\ proc[q].id_sala = proc[p].id_sala
                    /\ proc[q].id_mensaje < proc[p].id_mensaje)]_vars


\* ------------------------------------------------------------------ C14
\* C14: every text Message row committed to room R has a body that is not
\* empty once trimmed and a sender who is a member of R at the moment the row
\* is committed, also when the sender's LeaveRoom runs between the membership
\* check and the insert.
C14_TextoDeMiembro ==
    [][\A m \in mensajes' \ mensajes :
          (m.es_sistema = 0 /\ m.tipo_archivo = "NULL") =>
              /\ ~SoloEspacios(m.contenido)
              /\ <<m.id_sala, m.id_emisor>> \in DOMAIN miembros]_vars


\* ------------------------------------------------------------------ C15
\* C15: when Connect completes, the connection of a session with user u is
\* subscribed to u's private channel and the channel of every room u is a
\* member of, and to nothing else; the connection of a session without a user
\* is subscribed to nothing; no other connection's subscriptions change.
C15_SuscripcionAlConectar ==
    [][\A s \in Sesiones :
          (s \notin conectado /\ manejar_conexion(s)) =>
              /\ s \in conectado'
              /\ subs'[s] = IF s \in Users
                            THEN {<<"user", s>>} \cup
                                 {<<"room", x.id_sala>> :
                                     x \in {y \in salas : <<y.id_sala, s>> \in DOMAIN miembros}}
                            ELSE {}
              /\ \A c \in Sesiones \ {s} : subs'[c] = subs[c]]_vars

\* C15 witness: a member of one of two rooms and a session without a user are
\* connected; the member is subscribed to its room and not to the other.
C15_Witness ==
    /\ Cardinality(salas) = 2
    /\ 0 \in conectado
    /\ \E u \in Users \cap conectado, x \in salas, y \in salas :
         /\ <<x.id_sala, u>> \in DOMAIN miembros
         /\ <<y.id_sala, u>> \notin DOMAIN miembros
         /\ <<"room", x.id_sala>> \in subs[u]
         /\ <<"room", y.id_sala>> \notin subs[u]


\* ------------------------------------------------------------------ C16
\* C16: a room stops existing only in the step that commits a DeleteRoom issued
\* by its creator, and no Room row is ever changed; a DeleteRoom by any other
\* user is refused and leaves the room, its Memberships and its Messages in place.
C16_SoloElCreadorBorra ==
    [][/\ \A x \in salas :
            x \notin salas' =>
                /\ \A y \in salas' : y.id_sala # x.id_sala
                /\ \E p \in Procs :
                     /\ proc[p].pc = "delete_exec"
                     /\ proc'[p].pc = "delete_emit"
                     /\ proc[p].id_sala = x.id_sala
                     /\ proc[p].id_usuario = x.id_creador
       /\ \A p \in Procs :
            (Libre(p) /\ ~Rechazo(p)) =>
                \A s \in Users, room \in EntradasCrear.rooms :
                    (\A x \in salas : ~(EsLaSala(room, x.id_sala) /\ x.id_creador = s))
                        => ~DeleteStart(p, s, room)]_vars

\* C16 witness: the creator's DeleteRoom of one room has committed while a room
\* created by another user exists.
C16_Witness ==
    \E p \in Procs :
        /\ proc[p].pc = "delete_emit"
        /\ \A x \in salas : x.id_sala # proc[p].id_sala
        /\ \E x \in salas : x.id_creador # proc[p].id_usuario


\* ------------------------------------------------------------------ C17
\* C17: while room R exists its log is append-only: every step leaves the
\* messages of R as they are or adds one message whose id is greater than
\* every id already in the log; a message disappears only together with its room.
C17_LogSoloCrece ==
    [][/\ \A x \in salas :
            (\E y \in salas' : y.id_sala = x.id_sala) =>
                LET antes == {m \in mensajes : m.id_sala = x.id_sala}
                    despues == {m \in mensajes' : m.id_sala = x.id_sala}
                IN /\ antes \subseteq despues
                   /\ Cardinality(despues \ antes) <= 1
                   /\ \A n \in despues \ antes, m \in mensajes :
                        m.id_mensaje < n.id_mensaje
       /\ \A m \in mensajes \ mensajes' : \A y \in salas' : y.id_sala # m.id_sala]_vars

\* C17 witness: a room was deleted with its messages, and the room that is
\* left holds a notice and a message of a user.
C17_Witness ==
    /\ nextSalaId = 3
    /\ Cardinality(salas) = 1
    /\ \E x \in salas :
         /\ \E m \in mensajes : m.id_sala = x.id_sala /\ m.es_sistema = 1
         /\ \E m \in mensajes : m.id_sala = x.id_sala /\ m.es_sistema = 0
    /\ Cardinality(mensajes) < nextMensajeId - 1


\* ------------------------------------------------------------------ C18
\* C18: in every reachable state every Membership row and every Message row
\* references an existing room, also when DeleteRoom commits between the
\* check and the insert of a JoinRoom, SendMessage, UploadMedia or LeaveRoom
\* in flight on that room.
C18_IntegridadReferencial ==
    /\ \A e \in DOMAIN miembros : \E x \in salas : x.id_sala = e[1]
    /\ \A m \in mensajes : \E x \in salas : x.id_sala = m.id_sala

\* C18 witness: the insert of a request in flight was refused after the room
\* it was checked against had been deleted.
C18_Witness ==
    /\ respuesta = Error500
    /\ salas = {}
    /\ nextSalaId > 1
    /\ nextMensajeId > 1
    /\ \A p \in Procs : proc[p].pc # "create_insert"


\* ------------------------------------------------------------------ C19
\* C19: DeleteRoom is authorized by the creator field alone. DeleteRoom of an
\* existing room by its creator is accepted, member or not, and its commit
\* removes the room with its Memberships and Messages; DeleteRoom by a member
\* who is not the creator is refused.
C19_BorraElCreadorNoMiembro ==
    [][/\ \A p \in Procs, s \in Users, room \in EntradasRechazo.rooms :
            (Libre(p) /\ DeleteStart(p, s, room)) =>
                /\ (\E x \in salas : EsLaSala(room, x.id_sala) /\ x.id_creador = s) =>
                      /\ proc'[p].pc = "delete_exec"
                      /\ proc'[p].id_usuario = s
                      /\ EsLaSala(room, proc'[p].id_sala)
                /\ (EsMiembroDe(s, room)
                    /\ \A x \in salas : EsLaSala(room, x.id_sala) => x.id_creador # s) =>
                      Rechazo(p)
       /\ \A p \in Procs :
            (proc[p].pc = "delete_exec" /\ proc'[p] # proc[p]) =>
                /\ \A x \in salas' : x.id_sala # proc[p].id_sala
                /\ \A e \in DOMAIN miembros' : e[1] # proc[p].id_sala
                /\ \A m \in mensajes' : m.id_sala # proc[p].id_sala]_vars

\* C19 witness: the DeleteRoom of the creator, who has left the room and is no
\* longer a member, was accepted while another user is a member.
C19_Witness ==
    \E p \in Procs, x \in salas, u \in Users :
        /\ proc[p].pc = "delete_exec"
        /\ proc[p].id_sala = x.id_sala
        /\ proc[p].id_usuario = x.id_creador
        /\ <<x.id_sala, x.id_creador>> \notin DOMAIN miembros
        /\ <<x.id_sala, u>> \in DOMAIN miembros
        /\ AvisosDe(x.id_sala, <<USERNAMES[x.id_creador], " salio de la sala.">>) # {}


\* ------------------------------------------------------------------ C20
\* C20: LeaveRoom never removes a room: no step of a LeaveRoom changes the Room
\* table or removes a message, also when it removes the last Membership; the
\* code of every existing room, with or without members, is never drawn for a
\* new room; and JoinRoom with the code of a room the user is not a member of
\* is accepted and inserts the Membership.
C20_SalirNoBorraSala ==
    [][/\ \A p \in Procs :
            (proc[p].pc \in {"leave_delete", "leave_aviso", "leave_emit"}
             /\ proc'[p] # proc[p]) =>
                /\ salas' = salas
                /\ mensajes \subseteq mensajes'
       /\ \A p \in Procs :
            (proc[p].pc = "idle" /\ proc'[p].pc = "create_insert") =>
                \A x \in salas : x.codigo # proc'[p].codigo
       /\ \A p \in Procs :
            (Libre(p) /\ \A x \in salas : \A e \in DOMAIN miembros : e[1] # x.id_sala) =>
                \A s \in Users, x \in salas :
                    JoinStart(p, s, x.codigo) =>
                        proc'[p].pc = "join_insert" /\ proc'[p].id_sala = x.id_sala
       /\ \A p \in Procs :
            (proc[p].pc = "join_insert" /\ proc'[p] # proc[p]
             /\ \A e \in DOMAIN miembros : e[1] # proc[p].id_sala) =>
                /\ proc'[p].pc = "join_aviso"
                /\ <<proc[p].id_sala, proc[p].id_usuario>> \in DOMAIN miembros']_vars

\* C20 witness: the last member left the room, the room and its log are still
\* there, and the JoinRoom of that user with the room's code has inserted the
\* Membership.
C20_Witness ==
    \E p \in Procs, x \in salas :
        /\ proc[p].pc = "join_aviso"
        /\ proc[p].id_sala = x.id_sala
        /\ {u \in Users : <<x.id_sala, u>> \in DOMAIN miembros} = {proc[p].id_usuario}
        /\ AvisosDe(x.id_sala, <<USERNAMES[proc[p].id_usuario], " salio de la sala.">>) # {}
        /\ AvisosDe(x.id_sala, <<USERNAMES[x.id_creador], " se unio a la sala.">>) # {}

====
